---------------------------- MODULE Spec2Model ----------------------------
(***************************************************************************)
(* A model of scripts/oidc_credential_provider.py: the federation engine   *)
(* (OidcCredentialProvider: token cache, credential cache, the Auth0 and   *)
(* Cognito exchange paths), _atomic_write, the two daemon loops, and the   *)
(* process around them (Config.from_env, main, cmd_get_credentials).       *)
(*                                                                         *)
(* Time is in seconds.  The engine reads the wall clock with               *)
(* datetime.now(timezone.utc); the model's clock never goes backwards, and *)
(* a call of the engine happens at one instant: time passes between calls. *)
(* Python's None is the empty tuple, a present value v is <<v>>.           *)
(***************************************************************************)
EXTENDS Integers, Sequences, FiniteSets, TLC

(***************************************************************************)
(* Program constants                                                       *)
(***************************************************************************)
\* REFRESH_BUFFER = timedelta(minutes=5)
REFRESH_BUFFER == 300

\* result.get("expires_in", 86400)
DEFAULT_EXPIRES_IN == 86400

\* DurationSeconds=3600 of assume_role_with_web_identity
DURATION_SECONDS == 3600

\* credential-daemon --interval, default=2700
CRED_INTERVAL == 2700

\* token-daemon --interval, default=3600
TOKEN_INTERVAL == 3600

(***************************************************************************)
(* Bounds of the model                                                     *)
(***************************************************************************)
\* the grid of the clock: every time advance is a multiple of TimeStep
TimeStep == 300

\* the clock stops advancing at MaxTicks * TimeStep
MaxTicks == 4

MaxTime == MaxTicks * TimeStep

\* the daemon loops are followed for MaxCycles cycles
MaxCycles == 3

\* the number of write steps tmp_path.write_text takes: a file whose content has
\* fewer than Chunks chunks on disk is a partially written file
Chunks == 1

(***************************************************************************)
(* Values                                                                  *)
(***************************************************************************)
None == << >>

Some(v) == << v >>

Val(o) == o[1]

Range(f) == { f[i] : i \in DOMAIN f }

\* Config.idp_type after Config.from_env
IdpTypes == {"auth0", "cognito"}

\* access_token values an IdP hands out (non-empty strings)
Tokens == {"tokA", "tokB"}

(***************************************************************************)
(* What the token endpoint may answer to requests.post.  expires_in is     *)
(* absent, a number of seconds, or present and unusable by timedelta       *)
(* (a string, null).                                                       *)
(***************************************************************************)
ExpiresInValues == {900}

TokenFailures == {"network_error", "http_error", "malformed_json", "no_access_token"}

TokenResponses ==
    [kind : TokenFailures, access_token : {""}, expires_in_kind : {"absent"}, expires_in : {0}]
    \cup [kind : {"ok"}, access_token : Tokens, expires_in_kind : {"number"},
          expires_in : ExpiresInValues]
    \cup [kind : {"ok"}, access_token : Tokens, expires_in_kind : {"absent", "unusable"},
          expires_in : {0}]

(***************************************************************************)
(* The engine: self._oidc_token, self._oidc_expires, self._aws_creds       *)
(***************************************************************************)
NewProvider == [oidc_token |-> None, oidc_expires |-> None, aws_creds |-> None]

\* The events of one call, in program order:
\*   get_oidc_token   self.get_oidc_token() is entered from a credentials refresh
\*   token_fetch      the POST to the token endpoint; token: the access_token of
\*                    the answer, result: "ok" or why the fetch raised
\*   token_returned   get_oidc_token returned token to the credentials refresh
\*   exchange         the STS call or the POST to the vending API, made with
\*                    token; result: "ok" or why it raised
Ev(e, b, t, r) == [ev |-> e, backend |-> b, token |-> t, result |-> r]

\* a slip in the comparison: the token is reused once it is inside the buffer
TokenCacheHit_Reversed(eng, now) ==
    /\ eng.oidc_token # None
    /\ eng.oidc_expires # None
    /\ now > Val(eng.oidc_expires) - REFRESH_BUFFER

\* a slip in the comparison: <= for <
TokenCacheHit_Inclusive(eng, now) ==
    /\ eng.oidc_token # None
    /\ eng.oidc_expires # None
    /\ now <= Val(eng.oidc_expires) - REFRESH_BUFFER

\* lines 158-160: the cached token is reused
TokenCacheHit(eng, now) ==
    /\ eng.oidc_token # None
    /\ eng.oidc_expires # None
    /\ now < Val(eng.oidc_expires) - REFRESH_BUFFER

(***************************************************************************)
(* _get_auth0_token / _get_cognito_token: one POST to the token endpoint,  *)
(* then raise_for_status, json(), the access_token test, and the two       *)
(* assignments.  timedelta(seconds=expires_in) raises on an unusable       *)
(* expires_in after self._oidc_token was assigned.                         *)
(* The result: the engine afterwards, whether the call returned, the       *)
(* returned token, the error, the events.                                  *)
(***************************************************************************)
\* the token is assigned from result.get("access_token") before the test
FetchToken_AssignsFirst(backend, eng, now, resp) ==
    LET post(r) == << Ev("token_fetch", backend, resp.access_token, r) >>
    IN  IF resp.kind \in {"network_error", "http_error", "malformed_json"}
        THEN [eng |-> eng, ok |-> FALSE, token |-> None, err |-> resp.kind,
              trace |-> post(resp.kind)]
        ELSE IF resp.kind = "no_access_token"
        THEN [eng |-> [eng EXCEPT !.oidc_token = None], ok |-> FALSE, token |-> None,
              err |-> resp.kind, trace |-> post(resp.kind)]
        ELSE LET assigned == [eng EXCEPT !.oidc_token = Some(resp.access_token)]
             IN  IF resp.expires_in_kind = "unusable"
                 THEN [eng |-> assigned, ok |-> FALSE, token |-> None,
                       err |-> "bad_expires_in", trace |-> post("bad_expires_in")]
                 ELSE LET expires_in == IF resp.expires_in_kind = "absent"
                                        THEN DEFAULT_EXPIRES_IN
                                        ELSE resp.expires_in
                      IN  [eng |-> [assigned EXCEPT !.oidc_expires = Some(now + expires_in)],
                           ok |-> TRUE, token |-> Some(resp.access_token),
                           err |-> "", trace |-> post("ok")]

\* a failed fetch pushes the expiry of the cached token back, so that the cached
\* token is served again
FetchToken_RenewsOnFailure(backend, eng, now, resp) ==
    LET post(r) == << Ev("token_fetch", backend, resp.access_token, r) >>
    IN  IF resp.kind # "ok"
        THEN [eng |-> IF eng.oidc_expires # None
                      THEN [eng EXCEPT !.oidc_expires =
                                           Some(Val(eng.oidc_expires) + 2 * REFRESH_BUFFER)]
                      ELSE eng,
              ok |-> FALSE, token |-> None, err |-> resp.kind, trace |-> post(resp.kind)]
        ELSE LET assigned == [eng EXCEPT !.oidc_token = Some(resp.access_token)]
             IN  IF resp.expires_in_kind = "unusable"
                 THEN [eng |-> assigned, ok |-> FALSE, token |-> None,
                       err |-> "bad_expires_in", trace |-> post("bad_expires_in")]
                 ELSE LET expires_in == IF resp.expires_in_kind = "absent"
                                        THEN DEFAULT_EXPIRES_IN
                                        ELSE resp.expires_in
                      IN  [eng |-> [assigned EXCEPT !.oidc_expires = Some(now + expires_in)],
                           ok |-> TRUE, token |-> Some(resp.access_token),
                           err |-> "", trace |-> post("ok")]

FetchToken(backend, eng, now, resp) ==
    LET post(r) == << Ev("token_fetch", backend, resp.access_token, r) >>
    IN  IF resp.kind # "ok"
        THEN [eng |-> eng, ok |-> FALSE, token |-> None, err |-> resp.kind,
              trace |-> post(resp.kind)]
        ELSE LET assigned == [eng EXCEPT !.oidc_token = Some(resp.access_token)]
             IN  IF resp.expires_in_kind = "unusable"
                 THEN [eng |-> assigned, ok |-> FALSE, token |-> None,
                       err |-> "bad_expires_in", trace |-> post("bad_expires_in")]
                 ELSE LET expires_in == IF resp.expires_in_kind = "absent"
                                        THEN DEFAULT_EXPIRES_IN
                                        ELSE resp.expires_in
                      IN  [eng |-> [assigned EXCEPT !.oidc_expires = Some(now + expires_in)],
                           ok |-> TRUE, token |-> Some(resp.access_token),
                           err |-> "", trace |-> post("ok")]

get_auth0_token(eng, now, resp) == FetchToken("auth0", eng, now, resp)

\* the Cognito engine asks the Auth0 token endpoint
get_cognito_token_ViaAuth0(eng, now, resp) == FetchToken("auth0", eng, now, resp)

get_cognito_token(eng, now, resp) == FetchToken("cognito", eng, now, resp)

\* get_oidc_token, with now the clock it reads on entry
get_oidc_token(idp, eng, now, resp) ==
    IF TokenCacheHit(eng, now)
    THEN [eng |-> eng, ok |-> TRUE, token |-> eng.oidc_token, err |-> "", trace |-> << >>]
    ELSE IF idp = "auth0"
         THEN get_auth0_token(eng, now, resp)
         ELSE get_cognito_token(eng, now, resp)

(***************************************************************************)
(* What the credential exchange may answer: the STS call of the Auth0 path *)
(* (assume_role_with_web_identity) or the POST to the vending API of the   *)
(* Cognito path.  The engine takes the expiration verbatim from the        *)
(* response, so the response's lifetime is an input.                       *)
(***************************************************************************)
CredLifetimes == {900, DURATION_SECONDS}

KeySets ==
    { [access_key_id |-> "AKIA1", secret_access_key |-> "s3cr3t1", session_token |-> "sess1"],
      [access_key_id |-> "AKIA2", secret_access_key |-> "s3cr3t2", session_token |-> "sess2"] }

NoKeys == [access_key_id |-> "", secret_access_key |-> "", session_token |-> ""]

\* call_error: the call raises (boto3 error, requests error, raise_for_status);
\* error_field: the vending API answers {"error": ...};
\* malformed_body: json() raises, or a key of the credentials is missing
ExchangeFailures(backend) ==
    IF backend = "auth0" THEN {"call_error"}
    ELSE {"call_error", "error_field", "malformed_body"}

\* the values of the "error" field of a vending API answer
ErrorValues == {"invalid_client", "access_denied"}

ExchangeResponses(backend) ==
    [kind : ExchangeFailures(backend) \ {"error_field"}, keys : {NoKeys}, lifetime : {0},
     error : {""}]
    \cup [kind : ExchangeFailures(backend) \cap {"error_field"}, keys : {NoKeys},
          lifetime : {0}, error : ErrorValues]
    \cup [kind : {"ok"}, keys : KeySets, lifetime : CredLifetimes, error : {""}]

\* the message of the exception an exchange raises: the value of the error field
\* (RuntimeError(f"Credential vending API error: {result['error']}")), or the kind
\* of failure
ExchangeError(cresp) == IF cresp.kind = "error_field" THEN cresp.error ELSE cresp.kind

\* CachedCredentials(...)
CachedCredentials(keys, expiration) ==
    [access_key_id |-> keys.access_key_id, secret_access_key |-> keys.secret_access_key,
     session_token |-> keys.session_token, expiration |-> expiration]

\* a slip in the comparison: <= for <
CredsCacheHit_Inclusive(eng, now) ==
    /\ eng.aws_creds # None
    /\ now <= Val(eng.aws_creds).expiration - REFRESH_BUFFER

\* lines 237-239: the cached credentials are reused
CredsCacheHit(eng, now) ==
    /\ eng.aws_creds # None
    /\ now < Val(eng.aws_creds).expiration - REFRESH_BUFFER

(***************************************************************************)
(* _get_aws_credentials_auth0 / _get_aws_credentials_cognito:              *)
(* self.get_oidc_token() first (it reads the clock again; nothing blocks   *)
(* between the two reads, so it reads the same instant), then the exchange *)
(* call with the returned token, then the assignment of self._aws_creds.   *)
(***************************************************************************)
\* the exchange is given the token that was cached when the refresh began
Exchange_StaleToken(backend, eng, now, tresp, cresp) ==
    LET t     == get_oidc_token(backend, eng, now, tresp)
        pre   == << Ev("get_oidc_token", backend, "", "") >> \o t.trace
        given == IF eng.oidc_token # None THEN eng.oidc_token ELSE t.token
    IN  IF ~t.ok
        THEN [eng |-> t.eng, ok |-> FALSE, creds |-> None, err |-> t.err,
              stage |-> "token", trace |-> pre]
        ELSE LET tr == pre \o << Ev("token_returned", backend, Val(t.token), "ok"),
                                 Ev("exchange", backend, Val(given), cresp.kind) >>
             IN  IF cresp.kind # "ok"
                 THEN [eng |-> t.eng, ok |-> FALSE, creds |-> None, err |-> ExchangeError(cresp),
                       stage |-> "exchange", trace |-> tr]
                 ELSE LET c == CachedCredentials(cresp.keys, now + cresp.lifetime)
                      IN  [eng |-> [t.eng EXCEPT !.aws_creds = Some(c)], ok |-> TRUE,
                           creds |-> Some(c), err |-> "", stage |-> "", trace |-> tr]

\* a failed exchange undoes the token step: the engine is left as it was found
Exchange_RollsBackToken(backend, eng, now, tresp, cresp) ==
    LET t    == get_oidc_token(backend, eng, now, tresp)
        pre  == << Ev("get_oidc_token", backend, "", "") >> \o t.trace
    IN  IF ~t.ok
        THEN [eng |-> t.eng, ok |-> FALSE, creds |-> None, err |-> t.err,
              stage |-> "token", trace |-> pre]
        ELSE LET tr == pre \o << Ev("token_returned", backend, Val(t.token), "ok"),
                                 Ev("exchange", backend, Val(t.token), cresp.kind) >>
             IN  IF cresp.kind # "ok"
                 THEN [eng |-> eng, ok |-> FALSE, creds |-> None,
                       err |-> ExchangeError(cresp), stage |-> "exchange", trace |-> tr]
                 ELSE LET c == CachedCredentials(cresp.keys, now + cresp.lifetime)
                      IN  [eng |-> [t.eng EXCEPT !.aws_creds = Some(c)], ok |-> TRUE,
                           creds |-> Some(c), err |-> "", stage |-> "", trace |-> tr]

\* a failed exchange drops the cached credentials
Exchange_ForgetsOnError(backend, eng, now, tresp, cresp) ==
    LET t    == get_oidc_token(backend, eng, now, tresp)
        pre  == << Ev("get_oidc_token", backend, "", "") >> \o t.trace
    IN  IF ~t.ok
        THEN [eng |-> t.eng, ok |-> FALSE, creds |-> None, err |-> t.err,
              stage |-> "token", trace |-> pre]
        ELSE LET tr == pre \o << Ev("token_returned", backend, Val(t.token), "ok"),
                                 Ev("exchange", backend, Val(t.token), cresp.kind) >>
             IN  IF cresp.kind # "ok"
                 THEN [eng |-> [t.eng EXCEPT !.aws_creds = None], ok |-> FALSE,
                       creds |-> None, err |-> ExchangeError(cresp),
                       stage |-> "exchange", trace |-> tr]
                 ELSE LET c == CachedCredentials(cresp.keys, now + cresp.lifetime)
                      IN  [eng |-> [t.eng EXCEPT !.aws_creds = Some(c)], ok |-> TRUE,
                           creds |-> Some(c), err |-> "", stage |-> "", trace |-> tr]

Exchange(backend, eng, now, tresp, cresp) ==
    LET t    == get_oidc_token(backend, eng, now, tresp)
        pre  == << Ev("get_oidc_token", backend, "", "") >> \o t.trace
    IN  IF ~t.ok
        THEN [eng |-> t.eng, ok |-> FALSE, creds |-> None, err |-> t.err,
              stage |-> "token", trace |-> pre]
        ELSE LET tr == pre \o << Ev("token_returned", backend, Val(t.token), "ok"),
                                 Ev("exchange", backend, Val(t.token), cresp.kind) >>
             IN  IF cresp.kind # "ok"
                 THEN [eng |-> t.eng, ok |-> FALSE, creds |-> None, err |-> ExchangeError(cresp),
                       stage |-> "exchange", trace |-> tr]
                 ELSE LET c == CachedCredentials(cresp.keys, now + cresp.lifetime)
                      IN  [eng |-> [t.eng EXCEPT !.aws_creds = Some(c)], ok |-> TRUE,
                           creds |-> Some(c), err |-> "", stage |-> "", trace |-> tr]

get_aws_credentials_auth0(eng, now, tresp, cresp) ==
    Exchange("auth0", eng, now, tresp, cresp)

get_aws_credentials_cognito(eng, now, tresp, cresp) ==
    Exchange("cognito", eng, now, tresp, cresp)

\* the token is resolved before the credentials cache is looked at
get_aws_credentials_TokenFirst(idp, eng, now, tresp, cresp) ==
    LET t == get_oidc_token(idp, eng, now, tresp)
    IN  IF CredsCacheHit(eng, now)
        THEN [eng |-> [t.eng EXCEPT !.aws_creds = eng.aws_creds], ok |-> TRUE,
              creds |-> eng.aws_creds, err |-> "", stage |-> "",
              trace |-> << Ev("get_oidc_token", idp, "", "") >> \o t.trace]
        ELSE IF idp = "auth0"
             THEN get_aws_credentials_auth0(eng, now, tresp, cresp)
             ELSE get_aws_credentials_cognito(eng, now, tresp, cresp)

\* get_aws_credentials, with now the clock it reads on entry
get_aws_credentials(idp, eng, now, tresp, cresp) ==
    IF CredsCacheHit(eng, now)
    THEN [eng |-> eng, ok |-> TRUE, creds |-> eng.aws_creds, err |-> "", stage |-> "",
          trace |-> << >>]
    ELSE IF idp = "auth0"
         THEN get_aws_credentials_auth0(eng, now, tresp, cresp)
         ELSE get_aws_credentials_cognito(eng, now, tresp, cresp)

\* the events of one kind of a trace, and its calls of a collaborator
Events(trace, kind) == SelectSeq(trace, LAMBDA e : e.ev = kind)

NetCalls(trace) == SelectSeq(trace, LAMBDA e : e.ev \in {"token_fetch", "exchange"})

(***************************************************************************)
(* The collaborators answer only when they are called: the inputs of a     *)
(* call that makes no request are a single placeholder.                    *)
(***************************************************************************)
NoTokenResponse ==
    [kind |-> "network_error", access_token |-> "", expires_in_kind |-> "absent",
     expires_in |-> 0]

NoExchangeResponse == [kind |-> "call_error", keys |-> NoKeys, lifetime |-> 0, error |-> ""]

TokenAnswers(eng, now) ==
    IF get_oidc_token("auth0", eng, now, NoTokenResponse).trace = << >>
    THEN {NoTokenResponse} ELSE TokenResponses

ExchangeAnswers(idp, eng, now, tresp) ==
    IF Events(get_aws_credentials(idp, eng, now, tresp, NoExchangeResponse).trace,
              "exchange") # << >>
    THEN ExchangeResponses(idp) ELSE {NoExchangeResponse}

(***************************************************************************)
(* The daemons are followed against fewer answers than the engine alone:   *)
(* a token fetch fails with a network error or delivers a token that       *)
(* expires before the next cycle, an exchange fails (with the error field  *)
(* among the failures of the vending API) or delivers new credentials (a   *)
(* key set other than the cached one) of the lifetime the role assumption  *)
(* asks for.  The credential daemon always gets the same token, since it   *)
(* publishes none.                                                         *)
(***************************************************************************)
DaemonTokenAnswers(m, eng, now) ==
    { r \in TokenAnswers(eng, now) :
          \/ r = NoTokenResponse
          \/ /\ r.kind = "ok"
             /\ r.expires_in_kind = "number"
             /\ m = "credential-daemon" => r.access_token = "tokA" }

DaemonExchangeAnswers(idp, eng, now, tresp) ==
    { r \in ExchangeAnswers(idp, eng, now, tresp) :
          \/ r.kind = "call_error"
          \/ r.kind = "error_field" /\ r.error = "invalid_client"
          \/ /\ r.kind = "ok"
             /\ r.lifetime = DURATION_SECONDS
             /\ IF eng.aws_creds = None
                THEN r.keys.access_key_id = "AKIA1"
                ELSE r.keys.access_key_id # Val(eng.aws_creds).access_key_id }

(***************************************************************************)
(* Files.  A path is a stem and a suffix (the directory is the same for    *)
(* all); Path.with_suffix replaces the suffix.  A file on disk is None     *)
(* (absent) or its content with the number of chunks written so far.       *)
(***************************************************************************)
PathOf(stem, suffix) == [stem |-> stem, suffix |-> suffix]

\* path.with_suffix(suffix)
with_suffix(path, suffix) == [path EXCEPT !.suffix = suffix]

\* creds_path / "aws-credentials.env", "aws-credentials.json", "credentials"
env_file == PathOf("aws-credentials", ".env")

json_file == PathOf("aws-credentials", ".json")

aws_creds_file == PathOf("credentials", "")

\* --token-file: the default /var/run/oidc/token, or a path the operator chose
TokenPaths == { PathOf("token", ""), PathOf("token", ".tmp") }

\* the files a daemon publishes, in the order it writes them
Targets(m, tpath) ==
    IF m = "credential-daemon" THEN << env_file, json_file, aws_creds_file >>
    ELSE << tpath >>

Paths ==
    LET targets == {env_file, json_file, aws_creds_file} \cup TokenPaths
    IN  targets \cup { with_suffix(p, ".tmp") : p \in targets }

\* the text of a file: which format, of which credentials (or token), and the
\* instant of its "Generated:" line (None where the format has none)
Content(fmt, c, generated) ==
    [fmt |-> fmt, access_key_id |-> c.access_key_id,
     secret_access_key |-> c.secret_access_key, session_token |-> c.session_token,
     expiration |-> c.expiration, generated |-> generated, token |-> ""]

TokenContent(t) ==
    [fmt |-> "token", access_key_id |-> "", secret_access_key |-> "", session_token |-> "",
     expiration |-> 0, generated |-> None, token |-> t]

NoContent == [TokenContent("") EXCEPT !.fmt = ""]

\* lines 358-365, 369-378, 382-390: the three texts of one cycle
env_content(c, now) == Content("env", c, Some(now))

json_content(c) == Content("json", c, None)

aws_creds_content(c, now) == Content("sdk", c, Some(now))

\* the content argument of the j-th _atomic_write of a cycle
ContentOf(m, j, got, now) ==
    IF m = "credential-daemon"
    THEN << env_content(Val(got.creds), now), json_content(Val(got.creds)),
            aws_creds_content(Val(got.creds), now) >>[j]
    ELSE TokenContent(Val(got.token))

File(data, len) == Some([data |-> data, len |-> len])

\* the file is there with all of its content
Complete(f) == f # None /\ Val(f).len = Chunks

NoFiles == [p \in Paths |-> None]

(***************************************************************************)
(* _atomic_write(path, content), step by step:                             *)
(*   tmp_path = path.with_suffix(".tmp")                                   *)
(*   tmp_path.write_text(content): open (create or truncate), then write   *)
(*   tmp_path.rename(path): one atomic replacement of path by tmp_path,    *)
(*   which leaves the disk as it is when the two are the same path         *)
(***************************************************************************)
tmp_path(path) == with_suffix(path, ".tmp")

OpenForWrite(disk, path) == [disk EXCEPT ![tmp_path(path)] = File(NoContent, 0)]

WriteChunk(disk, path, content) ==
    [disk EXCEPT ![tmp_path(path)] = File(content, Val(disk[tmp_path(path)]).len + 1)]

rename(disk, path) ==
    IF tmp_path(path) = path THEN disk
    ELSE [disk EXCEPT ![path] = disk[tmp_path(path)], ![tmp_path(path)] = None]

\* no except clause: the exception leaves the loop and main() exits with 1
AfterCycleError_Propagates == "exited"

\* except Exception as e: logger.error(...), then time.sleep(interval)
AfterCycleError == "sleep"

(***************************************************************************)
(* The process: main() reads the environment with Config.from_env, builds  *)
(* the engine and runs the command.  The environment is the value of       *)
(* IDP_TYPE (None when unset) and the set of the other variables that are  *)
(* set to a non-empty string.                                              *)
(***************************************************************************)
Auth0Required ==
    {"AUTH0_DOMAIN", "AUTH0_CLIENT_ID", "AUTH0_CLIENT_SECRET", "AUTH0_AUDIENCE", "AWS_ROLE_ARN"}

CognitoRequired ==
    {"COGNITO_DOMAIN", "COGNITO_CLIENT_ID", "COGNITO_CLIENT_SECRET", "COGNITO_RESOURCE_SERVER",
     "COGNITO_CREDENTIAL_API_URL"}

AllVars == {"AWS_REGION"} \cup Auth0Required \cup CognitoRequired

\* the environments followed: IDP_TYPE unset, in mixed case, or unknown; all
\* variables set, the common one missing, or one of each backend missing
EnvIdpValues == {None, Some("Cognito"), Some("okta")}

EnvSets ==
    {AllVars, AllVars \ {"AWS_REGION"},
     AllVars \ {"AWS_ROLE_ARN", "COGNITO_CREDENTIAL_API_URL"}}

Envs == [IDP_TYPE : EnvIdpValues, set : EnvSets]

\* an environment in which backend idp is fully configured
EnvOf(idp) == [IDP_TYPE |-> Some(idp), set |-> AllVars]

\* str.lower() on the values of IDP_TYPE followed here
lower(str) == IF str = "Cognito" THEN "cognito" ELSE str

\* AWS_REGION is not among the variables looked for
from_env_SkipsRegion(e) ==
    LET idp     == IF e.IDP_TYPE = None THEN "auth0" ELSE lower(Val(e.IDP_TYPE))
        needed  == IF idp = "auth0" THEN Auth0Required ELSE CognitoRequired
        missing == needed \ e.set
    IN  IF idp \notin {"auth0", "cognito"}
        THEN [ok |-> FALSE, idp_type |-> idp, err |-> "invalid_idp_type"]
        ELSE IF missing # {}
        THEN [ok |-> FALSE, idp_type |-> idp, err |-> "missing_variables"]
        ELSE [ok |-> TRUE, idp_type |-> idp, err |-> ""]

\* Config.from_env: the Config, or the ValueError it raises
from_env(e) ==
    LET idp     == IF e.IDP_TYPE = None THEN "auth0" ELSE lower(Val(e.IDP_TYPE))
        needed  == IF idp = "auth0" THEN Auth0Required ELSE CognitoRequired
        missing == ({"AWS_REGION"} \cup needed) \ e.set
    IN  IF idp \notin {"auth0", "cognito"}
        THEN [ok |-> FALSE, idp_type |-> idp, err |-> "invalid_idp_type"]
        ELSE IF missing # {}
        THEN [ok |-> FALSE, idp_type |-> idp, err |-> "missing_variables"]
        ELSE [ok |-> TRUE, idp_type |-> idp, err |-> ""]

\* args.command
Commands == {"get-credentials", "credential-daemon", "token-daemon"}

\* the token daemon takes any backend
TokenDaemonSupports_Any(idp) == idp \in IdpTypes

\* line 408: provider.config.idp_type != "auth0" ends the token daemon
TokenDaemonSupports(idp) == idp = "auth0"

\* datetime.isoformat() of an aware UTC datetime: the instant with its offset
isoformat(t) == [instant |-> t, offset |-> "+00:00"]

\* the secret key and the session token change places
ProcessOutput_Swapped(c) ==
    [Version |-> 1, AccessKeyId |-> c.access_key_id, SecretAccessKey |-> c.session_token,
     SessionToken |-> c.secret_access_key, Expiration |-> isoformat(c.expiration)]

\* lines 318-324: the object cmd_get_credentials prints
ProcessOutput(c) ==
    [Version |-> 1, AccessKeyId |-> c.access_key_id, SecretAccessKey |-> c.secret_access_key,
     SessionToken |-> c.session_token, Expiration |-> isoformat(c.expiration)]

\* a failure is answered with an empty object and a normal return
cmd_get_credentials_Lenient(r) ==
    IF r.ok
    THEN [stdout |-> << ProcessOutput(Val(r.creds)) >>, exit_code |-> 0]
    ELSE [stdout |-> << ProcessOutput(CachedCredentials(NoKeys, 0)) >>, exit_code |-> 0]

\* cmd_get_credentials on the result r of provider.get_aws_credentials(): one
\* print and a normal return, or the exception that main() answers with
\* sys.exit(1)
cmd_get_credentials(r) ==
    IF r.ok
    THEN [stdout |-> << ProcessOutput(Val(r.creds)) >>, exit_code |-> 0]
    ELSE [stdout |-> << >>, exit_code |-> 1]

\* the sleep grows with the number of failed cycles
sleep_length_Backoff(seconds, failed) == seconds * (failed + 1)

\* lines 398, 432: time.sleep(interval), whatever the cycle's outcome and
\* however many cycles have failed
sleep_length(seconds, failed) == seconds

\* the positions of a daemon inside its while loop
LoopPcs == {"cycle", "open", "write", "rename", "sleep"}

VARIABLES
    idp_type,     \* provider.config.idp_type
    clock,        \* the wall clock
    provider,     \* the OidcCredentialProvider instance
    last,         \* what the most recent engine call did
    prior,        \* the call before it, when that was a get_oidc_token that
                  \* failed while a token not yet expired was cached
    prior_exchange, \* the call before it, when that was a get_aws_credentials
                  \* whose exchange failed
    mode,         \* args.command, "library" when the engine is called directly
    token_path,   \* args.token_file
    interval,     \* args.interval
    pc,           \* where the daemon is
    job,          \* which _atomic_write of the cycle is under way
    got,          \* the cycle's local creds / token
    fs,           \* the files on disk
    cycle_fs,     \* the files on disk when the current cycle began
    outcome,      \* of the current or last cycle: "none", "running", "ok", "failed"
    cycles,       \* the cycles begun
    failures,     \* the cycles that failed
    env,          \* os.environ
    exit_code,    \* None while the process runs (or was killed), else its exit code
    stdout        \* what was printed to standard output

engine_vars == << idp_type, clock, provider, last, prior, prior_exchange >>

daemon_vars ==
    << mode, token_path, interval, pc, job, got, fs, cycle_fs, outcome, cycles, failures >>

main_vars == << env, exit_code, stdout >>

vars == << engine_vars, daemon_vars, main_vars >>

\* the answer of the token endpoint in a call that asked it
Fetched(trace, tresp) == IF Events(trace, "token_fetch") # << >> THEN Some(tresp) ELSE None

\* the answer of the exchange in a call that made one
Exchanged(trace, cresp) == IF Events(trace, "exchange") # << >> THEN Some(cresp) ELSE None

NoCall ==
    [op |-> "none", now |-> 0, pre |-> NewProvider, ok |-> TRUE, err |-> "",
     token |-> None, creds |-> None, trace |-> << >>, tresp |-> None, cresp |-> None]

\* call c was a get_oidc_token at t1 that failed while a token with expiry E > t1
\* was cached: its token, E and t1
FailedOnLiveToken(c) ==
    IF /\ c.op = "get_oidc_token"
       /\ ~c.ok
       /\ c.pre.oidc_token # None
       /\ c.pre.oidc_expires # None
       /\ Val(c.pre.oidc_expires) > c.now
    THEN Some([token |-> Val(c.pre.oidc_token), expires |-> Val(c.pre.oidc_expires),
               at |-> c.now])
    ELSE None

\* call c was a get_aws_credentials whose exchange failed, so that its token
\* step had succeeded; eng is the engine it left: the expiry of the token it
\* left cached, and whether it had fetched that token itself
FailedExchange(c, eng) ==
    IF c.op = "get_aws_credentials" /\ ~c.ok /\ c.cresp # None
    THEN Some([expires |-> Val(eng.oidc_expires), fetched |-> c.tresp # None])
    ELSE None

NothingGot == [creds |-> None, token |-> None]

Init ==
    /\ idp_type \in IdpTypes
    /\ clock = 0
    /\ provider = NewProvider
    /\ last = NoCall
    /\ prior = None
    /\ prior_exchange = None
    /\ mode = "library"
    /\ token_path = PathOf("token", "")
    /\ interval = 0
    /\ pc = "idle"
    /\ job = 0
    /\ got = NothingGot
    /\ fs = NoFiles
    /\ cycle_fs = NoFiles
    /\ outcome = "none"
    /\ cycles = 0
    /\ failures = 0
    /\ env = EnvOf(idp_type)
    /\ exit_code = None
    /\ stdout = << >>

\* time passes between two calls
Tick ==
    /\ clock < MaxTime
    /\ clock' = clock + TimeStep
    /\ UNCHANGED << idp_type, provider, last, prior, prior_exchange, daemon_vars, main_vars >>

\* a caller invokes provider.get_oidc_token()
GetOidcToken ==
    \E tresp \in TokenAnswers(provider, clock) :
        LET r == get_oidc_token(idp_type, provider, clock, tresp)
        IN  /\ provider' = r.eng
            /\ last' = [op |-> "get_oidc_token", now |-> clock, pre |-> provider,
                        ok |-> r.ok, err |-> r.err, token |-> r.token, creds |-> None,
                        trace |-> r.trace, tresp |-> Fetched(r.trace, tresp),
                        cresp |-> None]
            /\ prior' = FailedOnLiveToken(last)
            /\ prior_exchange' = FailedExchange(last, provider)
            /\ UNCHANGED << idp_type, clock, daemon_vars, main_vars >>

\* a caller invokes provider.get_aws_credentials()
GetAwsCredentials ==
    \E tresp \in TokenAnswers(provider, clock) :
    \E cresp \in ExchangeAnswers(idp_type, provider, clock, tresp) :
        LET r == get_aws_credentials(idp_type, provider, clock, tresp, cresp)
        IN  /\ provider' = r.eng
            /\ last' = [op |-> "get_aws_credentials", now |-> clock, pre |-> provider,
                        ok |-> r.ok, err |-> r.err, token |-> None, creds |-> r.creds,
                        trace |-> r.trace, tresp |-> Fetched(r.trace, tresp),
                        cresp |-> Exchanged(r.trace, cresp)]
            /\ prior' = FailedOnLiveToken(last)
            /\ prior_exchange' = FailedExchange(last, provider)
            /\ UNCHANGED << idp_type, clock, daemon_vars, main_vars >>

Next == Tick \/ GetOidcToken \/ GetAwsCredentials

Spec == Init /\ [][Next]_vars

(***************************************************************************)
(* get_oidc_token with the time its request takes: the clock is read on    *)
(* entry (line 156) and the token endpoint answers after a delay, so the   *)
(* clock at the assignment of self._oidc_expires is later than the now     *)
(* the method works with.                                                  *)
(***************************************************************************)
\* how long requests.post may take
NetDelays == {0, TimeStep}

\* the clock is read again when the answer has come
now_of_call_OnReturn(entered, returned) == returned

\* line 156: now = datetime.now(timezone.utc), the first statement of the call
now_of_call(entered, returned) == entered

TimedGetOidcToken ==
    \E tresp \in TokenAnswers(provider, clock) :
    \E d \in (IF TokenCacheHit(provider, clock) THEN {0} ELSE NetDelays) :
        LET r == get_oidc_token(idp_type, provider, now_of_call(clock, clock + d), tresp)
        IN  /\ clock + d <= MaxTime
            /\ clock' = clock + d
            /\ provider' = r.eng
            /\ last' = [op |-> "get_oidc_token", now |-> clock, pre |-> provider,
                        ok |-> r.ok, err |-> r.err, token |-> r.token, creds |-> None,
                        trace |-> r.trace, tresp |-> Fetched(r.trace, tresp),
                        cresp |-> None]
            /\ prior' = FailedOnLiveToken(last)
            /\ prior_exchange' = FailedExchange(last, provider)
            /\ UNCHANGED << idp_type, daemon_vars, main_vars >>

TimedNext == Tick \/ TimedGetOidcToken

TimedSpec == Init /\ [][TimedNext]_vars

(***************************************************************************)
(* The daemons: main() has built the provider and calls                    *)
(* cmd_credential_daemon or cmd_token_daemon.  A cycle is one pass of the  *)
(* while loop: the engine call, then one _atomic_write per target.  The    *)
(* steps of _atomic_write are separate steps, since another process may    *)
(* read the files, or kill the daemon, between any two of them.  Any step  *)
(* on the file system may raise OSError.                                   *)
(***************************************************************************)
DaemonInit ==
    /\ idp_type \in IdpTypes
    /\ clock = 0
    /\ provider = NewProvider
    /\ last = NoCall
    /\ prior = None
    /\ prior_exchange = None
    /\ mode \in {"credential-daemon", "token-daemon"}
    /\ token_path \in (IF mode = "token-daemon" THEN TokenPaths ELSE {PathOf("token", "")})
    /\ interval = (IF mode = "credential-daemon" THEN CRED_INTERVAL ELSE TOKEN_INTERVAL)
    /\ pc = "start"
    /\ job = 0
    /\ got = NothingGot
    /\ fs = NoFiles
    /\ cycle_fs = NoFiles
    /\ outcome = "none"
    /\ cycles = 0
    /\ failures = 0
    /\ env = EnvOf(idp_type)
    /\ exit_code = None
    /\ stdout = << >>

\* the target of the _atomic_write under way
Target == Targets(mode, token_path)[job]

\* the except clause of the loop: the cycle has failed
CycleFails ==
    /\ pc' = AfterCycleError
    /\ outcome' = "failed"
    /\ job' = 0
    /\ failures' = failures + 1

\* lines 336-351 / 408-420: before the loop.  The token daemon refuses Cognito
\* (sys.exit(1)); creds_path.mkdir of the credential daemon may raise OSError,
\* which main() answers with sys.exit(1)
DaemonStart ==
    /\ pc = "start"
    /\ \/ /\ mode = "token-daemon"
          /\ pc' = IF TokenDaemonSupports(idp_type) THEN "cycle" ELSE "exited"
       \/ /\ mode = "credential-daemon"
          /\ pc' \in {"cycle", "exited"}
    /\ exit_code' = IF pc' = "exited" THEN Some(1) ELSE exit_code
    /\ UNCHANGED << engine_vars, mode, token_path, interval, job, got, fs, cycle_fs,
                    outcome, cycles, failures, env, stdout >>

\* line 355: creds = provider.get_aws_credentials()
CredentialCycle ==
    /\ pc = "cycle"
    /\ mode = "credential-daemon"
    /\ cycles < MaxCycles
    /\ \E tresp \in DaemonTokenAnswers(mode, provider, clock) :
       \E cresp \in DaemonExchangeAnswers(idp_type, provider, clock, tresp) :
           LET r == get_aws_credentials(idp_type, provider, clock, tresp, cresp)
           IN  /\ provider' = r.eng
               /\ last' = [op |-> "get_aws_credentials", now |-> clock, pre |-> provider,
                           ok |-> r.ok, err |-> r.err, token |-> None, creds |-> r.creds,
                           trace |-> r.trace, tresp |-> Fetched(r.trace, tresp),
                           cresp |-> Exchanged(r.trace, cresp)]
               /\ got' = [creds |-> r.creds, token |-> None]
               /\ IF r.ok
                  THEN pc' = "open" /\ outcome' = "running" /\ job' = 1 /\ UNCHANGED failures
                  ELSE CycleFails
    /\ cycles' = cycles + 1
    /\ cycle_fs' = fs
    /\ UNCHANGED << idp_type, clock, prior, prior_exchange, mode, token_path, interval, fs, main_vars >>

\* line 424: token = provider.get_oidc_token()
TokenCycle ==
    /\ pc = "cycle"
    /\ mode = "token-daemon"
    /\ cycles < MaxCycles
    /\ \E tresp \in DaemonTokenAnswers(mode, provider, clock) :
           LET r == get_oidc_token(idp_type, provider, clock, tresp)
           IN  /\ provider' = r.eng
               /\ last' = [op |-> "get_oidc_token", now |-> clock, pre |-> provider,
                           ok |-> r.ok, err |-> r.err, token |-> r.token, creds |-> None,
                           trace |-> r.trace, tresp |-> Fetched(r.trace, tresp),
                           cresp |-> None]
               /\ got' = [creds |-> None, token |-> r.token]
               /\ IF r.ok
                  THEN pc' = "open" /\ outcome' = "running" /\ job' = 1 /\ UNCHANGED failures
                  ELSE CycleFails
    /\ cycles' = cycles + 1
    /\ cycle_fs' = fs
    /\ UNCHANGED << idp_type, clock, prior, prior_exchange, mode, token_path, interval, fs, main_vars >>

\* tmp_path.write_text(content) opens tmp_path: the file is created or truncated
\* (the token daemon's token_file.parent.mkdir, line 425, comes first and is the
\* other call that may raise here)
WriteOpen ==
    /\ pc = "open"
    /\ \/ /\ fs' = OpenForWrite(fs, Target)
          /\ pc' = "write"
          /\ UNCHANGED << job, outcome, failures >>
       \/ /\ CycleFails
          /\ UNCHANGED fs
    /\ UNCHANGED << engine_vars, mode, token_path, interval, got, cycle_fs, cycles, main_vars >>

\* tmp_path.write_text(content) writes the next chunk of content
WriteData ==
    /\ pc = "write"
    /\ \/ /\ fs' = WriteChunk(fs, Target, ContentOf(mode, job, got, clock))
          /\ pc' = IF Val(fs'[tmp_path(Target)]).len = Chunks THEN "rename" ELSE "write"
          /\ UNCHANGED << job, outcome, failures >>
       \/ /\ CycleFails
          /\ UNCHANGED fs
    /\ UNCHANGED << engine_vars, mode, token_path, interval, got, cycle_fs, cycles, main_vars >>

\* tmp_path.rename(path); after the last target the cycle has succeeded
WriteRename ==
    /\ pc = "rename"
    /\ \/ /\ fs' = rename(fs, Target)
          /\ IF job < Len(Targets(mode, token_path))
             THEN pc' = "open" /\ job' = job + 1 /\ UNCHANGED outcome
             ELSE pc' = "sleep" /\ job' = 0 /\ outcome' = "ok"
          /\ UNCHANGED failures
       \/ /\ CycleFails
          /\ UNCHANGED fs
    /\ UNCHANGED << engine_vars, mode, token_path, interval, got, cycle_fs, cycles, main_vars >>

\* time.sleep(interval), then the next pass of while True
Sleep ==
    /\ pc = "sleep"
    /\ pc' = "cycle"
    /\ clock' = clock + sleep_length(interval, failures)
    /\ UNCHANGED << idp_type, provider, last, prior, prior_exchange, mode, token_path, interval, job, got,
                    fs, cycle_fs, outcome, cycles, failures, main_vars >>

\* the daemon is terminated from outside, wherever it is
Kill ==
    /\ pc \in LoopPcs \cup {"start"}
    /\ pc' = "killed"
    /\ UNCHANGED << engine_vars, mode, token_path, interval, job, got, fs, cycle_fs,
                    outcome, cycles, failures, main_vars >>

DaemonStep ==
    \/ DaemonStart
    \/ CredentialCycle
    \/ TokenCycle
    \/ WriteOpen
    \/ WriteData
    \/ WriteRename
    \/ Sleep

DaemonNext == DaemonStep \/ Kill

\* a daemon that is not killed keeps running: its process is always scheduled
DaemonSpec == DaemonInit /\ [][DaemonNext]_vars /\ WF_vars(DaemonStep)

(***************************************************************************)
(* The whole process, from the first line of main(): the environment and   *)
(* the command are what the operator gave.                                 *)
(***************************************************************************)
MainInit ==
    /\ env \in Envs
    /\ mode \in Commands
    /\ idp_type = ""
    /\ clock = 0
    /\ provider = NewProvider
    /\ last = NoCall
    /\ prior = None
    /\ prior_exchange = None
    /\ token_path \in (IF mode = "token-daemon" THEN TokenPaths ELSE {PathOf("token", "")})
    /\ interval = (IF mode = "credential-daemon" THEN CRED_INTERVAL
                   ELSE IF mode = "token-daemon" THEN TOKEN_INTERVAL ELSE 0)
    /\ pc = "main"
    /\ job = 0
    /\ got = NothingGot
    /\ fs = NoFiles
    /\ cycle_fs = NoFiles
    /\ outcome = "none"
    /\ cycles = 0
    /\ failures = 0
    /\ exit_code = None
    /\ stdout = << >>

\* lines 520-522 and 533-535: config = Config.from_env(), then
\* provider = OidcCredentialProvider(config); a ValueError is logged and the
\* process exits with 1
LoadConfig ==
    /\ pc = "main"
    /\ LET c == from_env(env)
       IN  IF c.ok
           THEN /\ pc' = "start"
                /\ idp_type' = c.idp_type
                /\ provider' = NewProvider
                /\ UNCHANGED exit_code
           ELSE /\ pc' = "exited"
                /\ exit_code' = Some(1)
                /\ UNCHANGED << idp_type, provider >>
    /\ UNCHANGED << clock, last, prior, prior_exchange, mode, token_path, interval, job, got, fs, cycle_fs,
                    outcome, cycles, failures, env, stdout >>

\* lines 524-525 and 536-538: cmd_get_credentials(provider), then the end of
\* main(), or the exception handler's sys.exit(1)
EmitCredentials ==
    /\ pc = "start"
    /\ mode = "get-credentials"
    /\ \E tresp \in TokenAnswers(provider, clock) :
       \E cresp \in ExchangeAnswers(idp_type, provider, clock, tresp) :
           LET r   == get_aws_credentials(idp_type, provider, clock, tresp, cresp)
               out == cmd_get_credentials(r)
           IN  /\ provider' = r.eng
               /\ last' = [op |-> "get_aws_credentials", now |-> clock, pre |-> provider,
                           ok |-> r.ok, err |-> r.err, token |-> None, creds |-> r.creds,
                           trace |-> r.trace, tresp |-> Fetched(r.trace, tresp),
                           cresp |-> Exchanged(r.trace, cresp)]
               /\ stdout' = stdout \o out.stdout
               /\ exit_code' = Some(out.exit_code)
    /\ pc' = "exited"
    /\ UNCHANGED << idp_type, clock, prior, prior_exchange, mode, token_path, interval, job, got, fs,
                    cycle_fs, outcome, cycles, failures, env >>

MainStep == LoadConfig \/ EmitCredentials \/ DaemonStep

MainNext == MainStep \/ Kill

MainSpec == MainInit /\ [][MainNext]_vars /\ WF_vars(MainStep)

(***************************************************************************)
(* Properties of the engine, checked under Spec.  last describes the most  *)
(* recent call: the clock it read (now), the engine before it (pre), what  *)
(* it returned, and its events; provider is the engine after it.           *)
(***************************************************************************)
\* the engine holds a token together with an expiry
HoldsToken(eng) == eng.oidc_token # None /\ eng.oidc_expires # None

\* the cached token is more than REFRESH_BUFFER away from its expiry at now
TokenFresh(eng, now) ==
    HoldsToken(eng) /\ Val(eng.oidc_expires) - now > REFRESH_BUFFER

\* the cached credentials are more than REFRESH_BUFFER away from expiring at now
CredsFresh(eng, now) ==
    eng.aws_creds # None /\ Val(eng.aws_creds).expiration - now > REFRESH_BUFFER

\* C1: a get_oidc_token call made while a token is cached with
\* expiry - now > REFRESH_BUFFER returns exactly the cached token, makes no
\* network call and leaves the token cache and the credential cache unchanged.
C1_CachedTokenReused ==
    (last.op = "get_oidc_token" /\ TokenFresh(last.pre, last.now))
        => /\ last.ok
           /\ last.token = last.pre.oidc_token
           /\ NetCalls(last.trace) = << >>
           /\ provider = last.pre

\* C1's case: a cached token is reused at a later instant than its fetch
C1_Witness ==
    /\ last.op = "get_oidc_token"
    /\ TokenFresh(last.pre, last.now)
    /\ last.now > 0
    /\ last.token = last.pre.oidc_token

\* C2: a get_oidc_token call made while no token is cached, or while the cached
\* token has expiry - now <= REFRESH_BUFFER, makes exactly one token-fetch
\* attempt, whether the attempt succeeds or fails.
C2_ExactlyOneFetch ==
    (last.op = "get_oidc_token" /\ ~TokenFresh(last.pre, last.now))
        => Len(Events(last.trace, "token_fetch")) = 1

\* C2's case: the cached token is exactly REFRESH_BUFFER from its expiry, and
\* the one fetch attempt fails
C2_Witness ==
    /\ last.op = "get_oidc_token"
    /\ HoldsToken(last.pre)
    /\ Val(last.pre.oidc_expires) - last.now = REFRESH_BUFFER
    /\ ~last.ok
    /\ Len(Events(last.trace, "token_fetch")) = 1

C4_FailedFetchKeepsCache ==
    \A e \in Range(last.trace) :
        (e.ev = "token_fetch" /\ e.result \in TokenFailures)
            => /\ e.backend = idp_type
               /\ ~last.ok
               /\ last.err = e.result
               /\ provider.oidc_token = last.pre.oidc_token
               /\ provider.oidc_expires = last.pre.oidc_expires

\* C4's case: a body without access_token while a token is cached (Cognito)
C4_Witness ==
    /\ idp_type = "cognito"
    /\ last.op = "get_oidc_token"
    /\ HoldsToken(last.pre)
    /\ last.err = "no_access_token"
    /\ provider.oidc_token = last.pre.oidc_token

\* C5: a get_aws_credentials call made while credentials are cached with
\* expiration - now > REFRESH_BUFFER returns the cached credentials without
\* entering get_oidc_token and without any network or SDK call, whatever the
\* token cache holds, and changes nothing.
C5_CredentialHitSkipsToken ==
    (last.op = "get_aws_credentials" /\ CredsFresh(last.pre, last.now))
        => /\ last.ok
           /\ last.creds = last.pre.aws_creds
           /\ last.trace = << >>
           /\ provider = last.pre

\* C5's case: the credentials are reused while the cached token has expired
C5_Witness ==
    /\ last.op = "get_aws_credentials"
    /\ CredsFresh(last.pre, last.now)
    /\ HoldsToken(last.pre)
    /\ Val(last.pre.oidc_expires) <= last.now
    /\ last.creds = last.pre.aws_creds

\* the token fetch of a credentials refresh failed
TokenFetchFailed(trace) ==
    \E e \in Range(trace) : e.ev = "token_fetch" /\ e.result # "ok"

\* C6: get_aws_credentials attempts the exchange only when no credentials are
\* cached or the cached expiration - now <= REFRESH_BUFFER; in that case it
\* enters get_oidc_token and attempts the exchange exactly once, unless the
\* token fetch failed, and then it attempts no exchange.
C6_ExchangeOnMissAfterToken ==
    last.op = "get_aws_credentials"
        => /\ Len(Events(last.trace, "exchange")) =
                 (IF ~CredsFresh(last.pre, last.now) /\ ~TokenFetchFailed(last.trace)
                  THEN 1 ELSE 0)
           /\ ~CredsFresh(last.pre, last.now)
                  => Len(Events(last.trace, "get_oidc_token")) = 1

\* C6's case: the cached credentials are exactly REFRESH_BUFFER from expiring
\* and are exchanged anew, once
C6_Witness ==
    /\ last.op = "get_aws_credentials"
    /\ last.pre.aws_creds # None
    /\ Val(last.pre.aws_creds).expiration - last.now = REFRESH_BUFFER
    /\ Len(Events(last.trace, "exchange")) = 1

\* C6 as written: the exchange is performed if and only if no credentials are
\* cached or the cached expiration - now <= REFRESH_BUFFER, and at most once.
C6_ExchangeIffMiss ==
    last.op = "get_aws_credentials"
        => /\ (Events(last.trace, "exchange") # << >>) <=> ~CredsFresh(last.pre, last.now)
           /\ Len(Events(last.trace, "exchange")) <= 1

\* C7: in a credentials refresh the exchange is called only after
\* get_oidc_token, entered in the same call, has returned, and with exactly the
\* token it returned (the token the engine then holds); a refresh that finds a
\* token cached with expiry - now > REFRESH_BUFFER fetches no token, and a
\* refresh whose token fetch fails calls no exchange.
C7_ExchangeAfterToken ==
    last.op = "get_aws_credentials"
        => /\ \A i \in DOMAIN last.trace :
                  last.trace[i].ev = "exchange"
                      => /\ i > 2
                         /\ last.trace[1].ev = "get_oidc_token"
                         /\ last.trace[i - 1].ev = "token_returned"
                         /\ last.trace[i].token = last.trace[i - 1].token
                         /\ Some(last.trace[i].token) = provider.oidc_token
                         /\ \A j \in 1 .. (i - 1) :
                                last.trace[j].ev = "token_fetch"
                                    => /\ last.trace[j].result = "ok"
                                       /\ last.trace[j].token = last.trace[i].token
           /\ TokenFresh(last.pre, last.now)
                  => Events(last.trace, "token_fetch") = << >>
           /\ (\E e \in Range(last.trace) : e.ev = "token_fetch" /\ e.result # "ok")
                  => Events(last.trace, "exchange") = << >>

\* C7's case: the refresh fetches a token other than the one cached before and
\* hands the new one to the exchange
C7_Witness ==
    /\ last.op = "get_aws_credentials"
    /\ last.pre.oidc_token # None
    /\ Len(last.trace) = 4
    /\ last.trace[2].ev = "token_fetch"
    /\ last.trace[4].ev = "exchange"
    /\ last.trace[4].token = last.trace[2].token
    /\ Some(last.trace[4].token) # last.pre.oidc_token

\* the exchange of the last call was answered with an error field
ErrorFieldAnswered ==
    /\ last.op = "get_aws_credentials"
    /\ last.cresp # None
    /\ Val(last.cresp).kind = "error_field"

TtlOf(resp) ==
    IF resp.expires_in_kind = "absent" THEN DEFAULT_EXPIRES_IN ELSE resp.expires_in

\* C19: the cached token and the cached expiry are both absent or both present,
\* and a call that changed the cached token has set the expiry to the one
\* computed from the answer that delivered this token.
C19_TokenAndExpiryBelongTogether ==
    /\ (provider.oidc_token = None) <=> (provider.oidc_expires = None)
    /\ (last.op # "none" /\ provider.oidc_token # last.pre.oidc_token)
           => /\ last.tresp # None
              /\ Val(last.tresp).expires_in_kind # "unusable"
              /\ provider.oidc_token = Some(Val(last.tresp).access_token)
              /\ provider.oidc_expires = Some(last.now + TtlOf(Val(last.tresp)))

\* the last call was a get_oidc_token that fetched a token and returned it
FetchedAndReturned == last.op = "get_oidc_token" /\ last.ok /\ last.tresp # None

\* C20 (under TimedSpec): after a get_oidc_token call that fetched a token
\* successfully, the cache holds the token of the answer with expiry = the time
\* read when the call was entered + the expires_in of the answer, 86400 when
\* the answer has none, and the call returned that token.
C20_ExpiryFromEntryTime ==
    FetchedAndReturned
        => /\ provider.oidc_token = Some(Val(last.tresp).access_token)
           /\ provider.oidc_expires = Some(last.now + TtlOf(Val(last.tresp)))
           /\ last.token = provider.oidc_token

\* C20's case: the answer had no expires_in and came after a delay
C20_Witness ==
    /\ FetchedAndReturned
    /\ Val(last.tresp).expires_in_kind = "absent"
    /\ clock > last.now
    /\ provider.oidc_expires = Some(last.now + 86400)

\* the exchange of the last call was attempted and failed
ExchangeFailed == last.op = "get_aws_credentials" /\ ~last.ok /\ last.cresp # None

\* the last call fetched no token and attempted exactly one exchange
NoFetchOneExchange ==
    /\ Events(last.trace, "token_fetch") = << >>
    /\ Len(Events(last.trace, "exchange")) = 1

\* C21: when the exchange fails after the token step succeeded, the credentials
\* cache is what it was before the call and the token of that call is cached
\* with its expiry (the one just fetched, or the one found cached); and a
\* get_aws_credentials that follows at a time earlier than that expiry
\* - REFRESH_BUFFER fetches no token and attempts exactly one exchange.
C21_FailedExchangeKeepsToken ==
    /\ ExchangeFailed
           => /\ provider.aws_creds = last.pre.aws_creds
              /\ provider.oidc_token # None
              /\ provider.oidc_expires # None
              /\ last.tresp # None
                     => /\ provider.oidc_token = Some(Val(last.tresp).access_token)
                        /\ provider.oidc_expires = Some(last.now + TtlOf(Val(last.tresp)))
              /\ last.tresp = None
                     => /\ provider.oidc_token = last.pre.oidc_token
                        /\ provider.oidc_expires = last.pre.oidc_expires
    /\ (/\ last.op = "get_aws_credentials"
        /\ prior_exchange # None
        /\ last.now < Val(prior_exchange).expires - REFRESH_BUFFER)
           => NoFetchOneExchange

\* C21's case: the exchange failed in a call that had fetched its token, time
\* passed, and the following call used the cached token for its one exchange
C21_Witness ==
    /\ last.op = "get_aws_credentials"
    /\ prior_exchange # None
    /\ Val(prior_exchange).fetched
    /\ last.now > 0
    /\ last.now < Val(prior_exchange).expires - REFRESH_BUFFER
    /\ NoFetchOneExchange

\* C21 as stated, the token's validity being the time before its expiry: the
\* get_aws_credentials that follows a failed exchange, before the expiry of the
\* token fetched in the failed call, fetches no token and attempts exactly one
\* exchange.
C21_NextCallBeforeExpiry ==
    (/\ last.op = "get_aws_credentials"
     /\ prior_exchange # None
     /\ Val(prior_exchange).fetched
     /\ last.now < Val(prior_exchange).expires)
        => NoFetchOneExchange

\* C23: the backend of an engine never changes, and every token fetch and
\* every exchange of a call is made against the backend of the engine: the
\* Auth0 engine never calls the vending API, the Cognito engine never calls
\* the role assumption.
C23_BackendFixed ==
    /\ [](\A e \in Range(last.trace) : e.backend = idp_type)
    /\ [][idp_type' = idp_type]_vars

\* C23's case: a later call of the Cognito engine, with a token already
\* cached, made a token fetch and an exchange
C23_Witness ==
    /\ idp_type = "cognito"
    /\ last.op = "get_aws_credentials"
    /\ last.pre.oidc_token # None
    /\ Len(NetCalls(last.trace)) = 2

(***************************************************************************)
(* Properties of the daemons, checked under DaemonSpec.  A reader of the   *)
(* published files may look at any state; cycle_fs holds the files as they *)
(* were when the current (or last) cycle began, last.now is the instant of *)
(* that cycle.                                                             *)
(***************************************************************************)
\* the complete file the cycle publishes as its j-th target
Published(j) == File(ContentOf(mode, j, got, last.now), Chunks)

\* the cycle got something to publish
GotSomething == got.creds # None \/ got.token # None

\* C8: at every instant of a refresh cycle, the writer killed or not, every
\* target path holds either the complete content it had when the cycle began or
\* the complete new content of the cycle, never a partially written file.
C8_ReaderSeesOldOrNew ==
    mode \in {"credential-daemon", "token-daemon"}
        => \A j \in DOMAIN Targets(mode, token_path) :
               LET p == Targets(mode, token_path)[j]
               IN  \/ fs[p] = cycle_fs[p]
                   \/ GotSomething /\ fs[p] = Published(j)

\* C9: after a cycle of the credential-file daemon has failed, the env file,
\* the JSON file and the SDK profile file hold what they held when the cycle
\* began.
C9_FailedCycleKeepsFiles ==
    (mode = "credential-daemon" /\ outcome = "failed")
        => \A p \in {env_file, json_file, aws_creds_file} : fs[p] = cycle_fs[p]

\* the daemon is inside a cycle that it can still finish
InCycle == pc \in {"open", "write", "rename"} \/ (pc = "cycle" /\ cycles < MaxCycles)

\* C10: a daemon inside its loop never leaves it by itself: a cycle that ends,
\* succeeded or failed, ends in the sleep, the sleep lasts one interval and
\* leads to the next cycle, and a daemon that is not killed always reaches the
\* sleep from a cycle and the next cycle from the sleep.
C10_LoopNeverStops ==
    /\ [][(pc \in LoopPcs) => (pc' \in LoopPcs \cup {"killed"})]_vars
    /\ [][(outcome' \in {"ok", "failed"} /\ outcome' # outcome) => pc' = "sleep"]_vars
    /\ [][(pc = "sleep" /\ pc' \notin {"sleep", "killed"})
              => (pc' = "cycle" /\ clock' = clock + interval)]_vars
    /\ [](InCycle => <>(pc \in {"sleep", "killed"}))
    /\ [](pc = "sleep" => <>(pc \in {"cycle", "killed"}))

\* C10's case: the next cycle begins, one interval later, after a failed cycle
C10_Witness ==
    /\ pc = "cycle"
    /\ outcome = "failed"
    /\ cycles = 1
    /\ clock = interval

\* the three files of the credential daemon
CredentialFiles == {env_file, json_file, aws_creds_file}

\* C16: in a credential daemon run with the default interval in which no cycle
\* has failed (every exchange answered with credentials of the 3600 s
\* lifetime), the credentials in every published file expire later than the
\* current time.
C16_PublishedCredentialsFresh ==
    (mode = "credential-daemon" /\ interval = CRED_INTERVAL /\ failures = 0)
        => \A p \in CredentialFiles :
               fs[p] # None => Val(fs[p]).data.expiration > clock

\* C17: when a step of the write of an atomic publish raises, the temporary
\* file does not exist afterwards and the target holds the content it had
\* before.
C17_FailedWriteDiscardsTemp ==
    [][(pc \in {"open", "write", "rename"} /\ outcome' = "failed")
          => /\ fs'[tmp_path(Target)] = None
             /\ fs'[Target] = cycle_fs[Target]]_vars

\* the key id, secret key and session token a file carries
KeysIn(f) ==
    << Val(f).data.access_key_id, Val(f).data.secret_access_key, Val(f).data.session_token >>

\* C18: whenever the credential daemon sleeps between two cycles, those of the
\* env file, the JSON file and the SDK profile file that exist carry the same
\* key id, secret key and session token.
C18_FilesCarrySameCredentials ==
    (mode = "credential-daemon" /\ pc = "sleep")
        => \A p, q \in CredentialFiles :
               (fs[p] # None /\ fs[q] # None) => KeysIn(fs[p]) = KeysIn(fs[q])

\* C22: a daemon cycle makes at most one token fetch and at most one exchange;
\* the engine is called only at the start of a cycle, so a failed attempt is
\* not repeated within its cycle, which ends in the sleep; and each cycle
\* after the first begins exactly one interval after the one before,
\* the interval being the configured one whatever the number of failures.
C22_FixedIntervalRetry ==
    /\ [](mode \in {"credential-daemon", "token-daemon"}
            => /\ Len(Events(last.trace, "token_fetch")) <= 1
               /\ Len(Events(last.trace, "exchange")) <= 1)
    /\ [][(last' # last) => (pc = "cycle" /\ cycles' = cycles + 1)]_vars
    /\ [][(cycles' # cycles)
              => /\ last'.now = clock
                 /\ cycles > 0 => clock = last.now + interval]_vars
    /\ [][(outcome' = "failed" /\ outcome # "failed") => pc' = "sleep"]_vars
    /\ [][interval' = interval]_vars

\* C22's case: three cycles have failed in a row, the third attempt came two
\* intervals after the first
C22_Witness ==
    /\ cycles = 3
    /\ failures = 3
    /\ last.now = 2 * interval
    /\ Len(NetCalls(last.trace)) >= 1

(***************************************************************************)
(* Properties of the process, checked under MainSpec.                      *)
(***************************************************************************)
\* the process has made no engine call, written no file, entered no loop and
\* printed nothing
NothingDone ==
    /\ last = NoCall
    /\ provider = NewProvider
    /\ fs = NoFiles
    /\ cycles = 0
    /\ stdout = << >>

\* the token-file daemon was selected with a complete Cognito configuration
TokenDaemonOnCognito == mode = "token-daemon" /\ pc # "main" /\ idp_type = "cognito"

\* C11: the token-file daemon selected with a Cognito (vending API)
\* configuration never gets past its startup: it fetches no token, writes no
\* file, never enters the loop, and (unless killed first) exits with code 1.
C11_TokenDaemonRefusesCognito ==
    /\ [](TokenDaemonOnCognito
            => /\ pc \in {"start", "exited", "killed"}
               /\ pc = "exited" => exit_code = Some(1)
               /\ NothingDone)
    /\ [](TokenDaemonOnCognito => <>(pc \in {"exited", "killed"}))

\* C11's case: the token daemon on Cognito has exited with 1
C11_Witness ==
    /\ TokenDaemonOnCognito
    /\ pc = "exited"
    /\ exit_code = Some(1)

\* the one engine call of emission mode succeeded
EmissionSucceeded == last.op = "get_aws_credentials" /\ last.ok

\* C12: in emission mode, a process that has ended has an exit code; when
\* get_aws_credentials did not succeed (configuration error, token fetch
\* failure, exchange failure) the code is not 0 and nothing is on standard
\* output; standard output is non-empty only after get_aws_credentials
\* succeeded, and then the exit code is 0.
C12_EmissionErrorsAreTerminal ==
    mode = "get-credentials"
        => /\ pc = "exited" => exit_code # None
           /\ (pc = "exited" /\ ~EmissionSucceeded)
                  => (Val(exit_code) # 0 /\ stdout = << >>)
           /\ stdout # << >> => (EmissionSucceeded /\ exit_code = Some(0))

\* C12's case: the vending API refused, the process has exited with 1 and
\* printed nothing
C12_Witness ==
    /\ mode = "get-credentials"
    /\ pc = "exited"
    /\ last.cresp # None
    /\ Val(last.cresp).kind = "error_field"
    /\ exit_code = Some(1)
    /\ stdout = << >>

\* the backend the environment chooses and the settings it needs
ChosenBackend(e) == IF e.IDP_TYPE = None THEN "auth0" ELSE lower(Val(e.IDP_TYPE))

RequiredSettings(backend) ==
    {"AWS_REGION"} \cup (IF backend = "auth0" THEN Auth0Required ELSE CognitoRequired)

ConfigurationError(e) ==
    \/ ChosenBackend(e) \notin IdpTypes
    \/ ~(RequiredSettings(ChosenBackend(e)) \subseteq e.set)

\* C14: with an invalid backend type, or a required setting of the chosen
\* backend missing, the process goes from the start of main() straight to exit
\* code 1: no Config and no engine is made, no token fetch or exchange, no file,
\* no loop, no output.
C14_ConfigErrorIsFatal ==
    /\ [](ConfigurationError(env)
            => /\ pc \in {"main", "exited"}
               /\ pc = "exited" => exit_code = Some(1)
               /\ idp_type = ""
               /\ NothingDone)
    /\ [](ConfigurationError(env) => <>(pc = "exited"))

\* C14's case: Auth0 by default, a required variable missing, exit code 1
C14_Witness ==
    /\ env.IDP_TYPE = None
    /\ env.set # AllVars
    /\ ConfigurationError(env)
    /\ pc = "exited"
    /\ exit_code = Some(1)

\* C15: what emission mode prints is one object with Version 1 whose key id,
\* secret key and session token are those of the credentials
\* get_aws_credentials returned, which are those of the exchange's answer, and
\* whose Expiration is the ISO form of their expiration.
C15_EmissionPrintsTheCredentials ==
    (mode = "get-credentials" /\ stdout # << >>)
        => /\ Len(stdout) = 1
           /\ last.creds # None
           /\ last.cresp # None
           /\ stdout[1].Version = 1
           /\ stdout[1].AccessKeyId = Val(last.creds).access_key_id
           /\ stdout[1].SecretAccessKey = Val(last.creds).secret_access_key
           /\ stdout[1].SessionToken = Val(last.creds).session_token
           /\ stdout[1].Expiration = isoformat(Val(last.creds).expiration)
           /\ stdout[1].AccessKeyId = Val(last.cresp).keys.access_key_id
           /\ stdout[1].SecretAccessKey = Val(last.cresp).keys.secret_access_key
           /\ stdout[1].SessionToken = Val(last.cresp).keys.session_token
           /\ stdout[1].Expiration.instant = last.now + Val(last.cresp).lifetime

\* C15's case: the second key set with the short lifetime was printed
C15_Witness ==
    /\ mode = "get-credentials"
    /\ stdout # << >>
    /\ stdout[1].AccessKeyId = "AKIA2"
    /\ stdout[1].SessionToken = "sess2"
    /\ stdout[1].Expiration.instant = 900

=============================================================================
